---- MODULE Spec2Model ----
(***************************************************************************)
(* TEMPEST (tempest.py): the outer fixed-point driver main(), the adaptive *)
(* Runge-Kutta integrator rk4(), the critical-point locator outflows()     *)
(* with critSlope(), the shooting propagator slope2curve(), the density of *)
(* fullRHS() and the reader read_bzin().                                   *)
(*                                                                         *)
(* Floating-point numbers are modelled as exact rationals <<num, den>>     *)
(* (den > 0, lowest terms), so rounding is not part of the model.          *)
(***************************************************************************)
EXTENDS Integers, Sequences, FiniteSets, TLC

VARIABLES
  \* ---- rk4(): one call, sub-step by sub-step
  rk_pc, rk_fi, rk_ri, rk_dr, rk_src, rstep, fstep, stepstotal, stepstaken,
  deltar, ff,
  \* ---- outflows(): the critical-point locator on a batch of models
  o_pc, o_j, rhs, F, rootflag, icrit, badflag,
  \* ---- main(): the fixed-point driver
  m_pc, m_j, it, changemodels, u1, uinj, uout, u,
  \* ---- slope2curve(): the shooting propagator of one model
  c_pc, iC, upt, dUdrpt, ucurve, c_i, c_raw, c_calls, c_writes, c_reads,
  \* ---- outflows(), lines 754-771: the slopes and the profiles
  ucr, plus, minus, locCrit, uflow, calls,
  \* ---- fullRHS(), lines 589-604: the density
  f_pc, f_j, zTR, Bf, uf, Tf, iTR, rho,
  \* ---- read_bzin()
  b_pc, b_i, file, pos, multiple, nmods, nsteps, ozx, oB, zx, B

rkVars == <<rk_pc, rk_fi, rk_ri, rk_dr, rk_src, rstep, fstep, stepstotal,
            stepstaken, deltar, ff>>

outVars == <<o_pc, o_j, rhs, F, rootflag, icrit, badflag>>

mainVars == <<m_pc, m_j, it, changemodels, u1, uinj, uout, u>>

curveVars == <<c_pc, iC, upt, dUdrpt, ucurve, c_i, c_raw, c_calls, c_writes,
               c_reads>>

tailVars == <<ucr, plus, minus, locCrit, uflow, calls>>

rhoVars == <<f_pc, f_j, zTR, Bf, uf, Tf, iTR, rho>>

bzVars == <<b_pc, b_i, file, pos, multiple, nmods, nsteps, ozx, oB, zx,
            B>>

vars == <<rkVars, outVars, mainVars, curveVars, tailVars, rhoVars, bzVars>>

(***************************************************************************)
(* Exact arithmetic standing for the float operations of the source.       *)
(***************************************************************************)
Abs(x) == IF x < 0 THEN -x ELSE x

RECURSIVE GCD(_, _)
GCD(a, b) == IF b = 0 THEN a ELSE GCD(b, a % b)

Norm(n, d) ==
  LET g == GCD(Abs(n), Abs(d))
      s == IF d < 0 THEN -1 ELSE 1
  IN  <<(s * n) \div g, (s * d) \div g>>

Q(n) == <<n, 1>>
RAdd(a, b) == Norm(a[1] * b[2] + b[1] * a[2], a[2] * b[2])
RNeg(a) == <<-a[1], a[2]>>
RSub(a, b) == RAdd(a, RNeg(b))
RMul(a, b) == Norm(a[1] * b[1], a[2] * b[2])
RDiv(a, b) == Norm(a[1] * b[2], a[2] * b[1])
RAbs(a) == <<Abs(a[1]), a[2]>>
RLt(a, b) == a[1] * b[2] < b[1] * a[2]
RIsZero(a) == a[1] = 0
\* np.sign: -1, 0 or 1
RSign(a) == IF a[1] < 0 THEN -1 ELSE IF a[1] = 0 THEN 0 ELSE 1

\* Bounds of the model
MaxDr == 1
MaxFi == 1
MaxSlope == 30
NMods == 2       \* nmods, the number of models of a batch
NSteps == 6      \* nsteps, the number of grid points
RhsDen == 10     \* the RHS values of the inputs are +-1/RhsDen
MaxU == 2        \* the largest velocity of the propagator's inputs

\* Program constants
Threshold == 5   \* changemodels[j] > 0.005, in thousandths
MinIter == 10    \* it < 10
MaxIter == 300   \* it < 300
AdaptInv == 10   \* adaptiveconstant = 0.1 = 1/AdaptInv
StepCap == 100   \* stepstaken > 100

adaptiveconstant == <<1, AdaptInv>>

Models == 0..(NMods - 1)
Steps == 0..(NSteps - 1)

\* the value of F at v, with v evaluated once (a local assignment x = v)
With(v, Op(_)) == CHOOSE y \in {Op(x) : x \in {v}} : TRUE

Ok(v) == [ok |-> TRUE, v |-> v]
Raise == [ok |-> FALSE]

(***************************************************************************)
(* np.interp(x, xp, fp): linear interpolation, clamped outside the grid.   *)
(* xp is the grid (a function 0..n-1 -> Int), fp a function 0..n-1 ->      *)
(* rational.                                                               *)
(***************************************************************************)
interp(x, xp, fp) ==
  LET n == Cardinality(DOMAIN xp)
  IN  IF ~RLt(Q(xp[0]), x) THEN fp[0]
      ELSE IF ~RLt(x, Q(xp[n - 1])) THEN fp[n - 1]
      ELSE LET k == CHOOSE i \in 0..(n - 2) :
                      /\ ~RLt(x, Q(xp[i]))
                      /\ RLt(x, Q(xp[i + 1]))
           IN  RAdd(fp[k],
                    RDiv(RMul(RSub(x, Q(xp[k])), RSub(fp[k + 1], fp[k])),
                         Q(xp[k + 1] - xp[k])))

(***************************************************************************)
(* dfdrval(uval, rval, rarray, dfdr).  The slope source src is             *)
(*   [mode |-> "plain", r, dfdr]      a derivative profile (an ndarray)     *)
(*   [mode |-> "crit", r, ucr, rhs]   the pair (ucr, rhs)                   *)
(*   [mode |-> "any", s]              an unconstrained source: s[n] is the  *)
(*                                    value of the n-th evaluation of the  *)
(*                                    sub-step                             *)
(* The result is Raise where numpy raises FloatingPointError (np.seterr).  *)
(***************************************************************************)
dfdrval(n, uval, rval, src) ==
  IF src.mode = "plain" THEN Ok(interp(rval, src.r, src.dfdr))
  ELSE IF src.mode = "crit" THEN
    LET ucrval == interp(rval, src.r, src.ucr)
        rhsval == interp(rval, src.r, src.rhs)
    IN  IF RIsZero(uval) THEN Raise
        ELSE LET den == RSub(uval, RDiv(RMul(ucrval, ucrval), uval))
             IN  IF RIsZero(den) THEN Raise ELSE Ok(RDiv(rhsval, den))
  ELSE Ok(Q(src.s[n]))

(***************************************************************************)
(* The step of one pass: adaptiveconstant/|dlnf| in the direction of dr,   *)
(* replaced by the remaining distance when it would overshoot or when more *)
(* than StepCap passes have been made.                                     *)
(***************************************************************************)
rk4DeltarNoCap(st, dr, dlnf) ==
  LET sign == Q(RSign(dr))
      d0 == RMul(sign, RAbs(RDiv(adaptiveconstant, dlnf)))
  IN  IF RLt(RAbs(dr), RAdd(RAbs(st.stepstotal), RAbs(d0)))
      THEN RMul(sign, RSub(RAbs(dr), RAbs(st.stepstotal)))
      ELSE d0

rk4Deltar(st, dr, dlnf) ==
  LET sign == Q(RSign(dr))
      d0 == RMul(sign, RAbs(RDiv(adaptiveconstant, dlnf)))
  IN  IF \/ RLt(RAbs(dr), RAdd(RAbs(st.stepstotal), RAbs(d0)))
         \/ st.stepstaken > StepCap
      THEN RMul(sign, RSub(RAbs(dr), RAbs(st.stepstotal)))
      ELSE d0

(***************************************************************************)
(* One pass of the body of the while loop of rk4().  st is the record of   *)
(* the locals rstep, fstep, stepstotal, stepstaken, deltar, ff.            *)
(***************************************************************************)
rk4Body(st, dr, src) ==
  With(dfdrval(1, st.fstep, st.rstep, src), LAMBDA s1 :
  IF ~s1.ok \/ RIsZero(st.fstep) THEN Raise
  ELSE
  With(RDiv(s1.v, st.fstep), LAMBDA dlnf :
  IF RIsZero(dlnf) THEN Raise
  ELSE
  With(rk4Deltar(st, dr, dlnf), LAMBDA dl :
  With(RAdd(st.rstep, RDiv(dl, Q(2))), LAMBDA r2 :
  With(RAdd(st.rstep, dl), LAMBDA r3 :
  With(RMul(dr, s1.v), LAMBDA pk1 :
  With(dfdrval(2, RAdd(st.fstep, RDiv(pk1, Q(2))), r2, src), LAMBDA s2 :
  IF ~s2.ok THEN Raise
  ELSE
  With(RMul(dr, s2.v), LAMBDA pk2 :
  With(dfdrval(3, RAdd(st.fstep, RDiv(pk2, Q(2))), r2, src), LAMBDA s3 :
  IF ~s3.ok THEN Raise
  ELSE
  With(RMul(dr, s3.v), LAMBDA pk3 :
  With(dfdrval(4, RAdd(st.fstep, pk3), r3, src), LAMBDA s4 :
  IF ~s4.ok THEN Raise
  ELSE
  With(RMul(dr, s4.v), LAMBDA pk4 :
  With(RAdd(st.fstep, RAdd(RDiv(RAdd(pk1, pk4), Q(6)),
                           RDiv(RAdd(pk2, pk3), Q(3)))), LAMBDA fnew :
    [ok |-> TRUE,
     rstep |-> r3,
     fstep |-> fnew,
     stepstotal |-> RAdd(st.stepstotal, RAbs(dl)),
     stepstaken |-> st.stepstaken + 1,
     deltar |-> dl,
     ff |-> fnew])))))))))))))

\* the locals of rk4() before the loop
rk4Locals(fi, ri) ==
  [ok |-> TRUE, rstep |-> ri, fstep |-> fi, stepstotal |-> Q(0),
   stepstaken |-> 0, deltar |-> Q(0), ff |-> Q(0)]

\* while np.abs(stepstotal) < np.abs(dr)
rk4Cond(st, dr) == RLt(RAbs(st.stepstotal), RAbs(dr))

(***************************************************************************)
(* rk4(fi, ri, dr, r, dfdr) as a function: the value returned, or Raise.   *)
(***************************************************************************)
RECURSIVE rk4Loop(_, _, _)
rk4Loop(st, dr, src) ==
  IF ~rk4Cond(st, dr) THEN Ok(st.ff)
  ELSE With(rk4Body(st, dr, src), LAMBDA nx :
         IF nx.ok THEN rk4Loop(nx, dr, src) ELSE Raise)

rk4(fi, ri, dr, src) == rk4Loop(rk4Locals(fi, ri), dr, src)

(***************************************************************************)
(* rk4() as a process: one action per pass of the loop.                    *)
(***************************************************************************)
Slopes == {s \in -MaxSlope..MaxSlope : Abs(s) \in {1, MaxSlope}}
\* the values an unconstrained source returns in the four evaluations of one
\* pass: slopes of one magnitude and alternating sign, whose weighted sum
\* pk1 + 2 pk2 + 2 pk3 + pk4 is 0
AnyDraws == {<<s, -s, s, -s>> : s \in Slopes}
Draws(src) == IF src.mode = "any" THEN AnyDraws ELSE {<<>>}
SourceOf(src, s) == IF src.mode = "any" THEN [mode |-> "any", s |-> s] ELSE src
RkGrid == [k \in 0..2 |-> k]
RkSources ==
  {[mode |-> "plain", r |-> RkGrid, dfdr |-> [k \in 0..2 |-> Q(p)]] :
     p \in Slopes}
  \cup {[mode |-> "any"]}
RkDrs == {d \in -MaxDr..MaxDr : Abs(d) \in {1, MaxDr}}

rkLocals == [ok |-> TRUE, rstep |-> rstep, fstep |-> fstep,
             stepstotal |-> stepstotal, stepstaken |-> stepstaken,
             deltar |-> deltar, ff |-> ff]

\* rk4 is not running
RkIdle ==
  /\ rk_pc = "idle"
  /\ rk_fi = Q(0) /\ rk_ri = Q(0) /\ rk_dr = Q(0)
  /\ rk_src = [mode |-> "any"]
  /\ rstep = Q(0) /\ fstep = Q(0) /\ stepstotal = Q(0) /\ stepstaken = 0
  /\ deltar = Q(0) /\ ff = Q(0)

\* outflows is not running
OutIdle ==
  /\ o_pc = "idle"
  /\ o_j = 0
  /\ rhs = <<>> /\ F = <<>> /\ rootflag = <<>> /\ icrit = <<>>
  /\ badflag = 0

\* main is not running
MainIdle ==
  /\ m_pc = "idle"
  /\ m_j = 0 /\ it = 0
  /\ changemodels = <<>> /\ u1 = <<>> /\ uinj = <<>> /\ uout = <<>>
  /\ u = <<>>

\* slope2curve is not running
CurveIdle ==
  /\ c_pc = "idle"
  /\ iC = 0 /\ upt = Q(0) /\ dUdrpt = <<>> /\ ucurve = <<>>
  /\ c_i = 0 /\ c_raw = <<>>
  /\ c_calls = {} /\ c_writes = <<>> /\ c_reads = {}

\* the part of outflows after the critical indices is not running
TailIdle ==
  /\ ucr = <<>> /\ plus = <<>> /\ minus = <<>>
  /\ locCrit = <<>> /\ uflow = <<>> /\ calls = <<>>

\* fullRHS is not running
RhoIdle ==
  /\ f_pc = "idle"
  /\ f_j = 0
  /\ zTR = <<>> /\ Bf = <<>> /\ uf = <<>> /\ Tf = <<>>
  /\ iTR = <<>> /\ rho = <<>>

\* read_bzin is not running
BzIdle ==
  /\ b_pc = "idle"
  /\ b_i = 0
  /\ file = <<>> /\ pos = <<1, 1>>
  /\ multiple = 0 /\ nmods = 0 /\ nsteps = 0
  /\ ozx = <<>> /\ oB = <<>> /\ zx = <<>> /\ B = <<>>

InitRk ==
  /\ OutIdle
  /\ MainIdle
  /\ CurveIdle
  /\ TailIdle
  /\ RhoIdle
  /\ BzIdle
  /\ rk_pc = "loop"
  /\ rk_fi \in {Q(f) : f \in -1..MaxFi}
  /\ rk_ri \in {Q(1)}
  /\ rk_dr \in {Q(d) : d \in RkDrs}
  /\ rk_src \in RkSources
  /\ rstep = rk_ri
  /\ fstep = rk_fi
  /\ stepstotal = Q(0)
  /\ stepstaken = 0
  /\ deltar = Q(0)
  /\ ff = Q(0)

SetRkLocals(nx) ==
  /\ rstep' = nx.rstep
  /\ fstep' = nx.fstep
  /\ stepstotal' = nx.stepstotal
  /\ stepstaken' = nx.stepstaken
  /\ deltar' = nx.deltar
  /\ ff' = nx.ff

\* a pass of the loop that completes
Rk4Step ==
  /\ rk_pc = "loop"
  /\ rk4Cond(rkLocals, rk_dr)
  /\ \E s \in Draws(rk_src) :
       \E nx \in {rk4Body(rkLocals, rk_dr, SourceOf(rk_src, s))} :
         /\ nx.ok
         /\ SetRkLocals(nx)
  /\ UNCHANGED <<rk_pc, rk_fi, rk_ri, rk_dr, rk_src>>
  /\ UNCHANGED <<outVars, mainVars, curveVars,
                 tailVars, rhoVars, bzVars>>

\* a pass of the loop in which numpy raises FloatingPointError
Rk4Raise ==
  /\ rk_pc = "loop"
  /\ rk4Cond(rkLocals, rk_dr)
  /\ \E s \in Draws(rk_src) :
       ~rk4Body(rkLocals, rk_dr, SourceOf(rk_src, s)).ok
  /\ rk_pc' = "raised"
  /\ UNCHANGED <<rk_fi, rk_ri, rk_dr, rk_src, rstep, fstep, stepstotal,
                 stepstaken, deltar, ff>>
  /\ UNCHANGED <<outVars, mainVars, curveVars,
                 tailVars, rhoVars, bzVars>>

\* return ff
Rk4Return ==
  /\ rk_pc = "loop"
  /\ ~rk4Cond(rkLocals, rk_dr)
  /\ rk_pc' = "done"
  /\ UNCHANGED <<rk_fi, rk_ri, rk_dr, rk_src, rstep, fstep, stepstotal,
                 stepstaken, deltar, ff>>
  /\ UNCHANGED <<outVars, mainVars, curveVars,
                 tailVars, rhoVars, bzVars>>

NextRk == Rk4Step \/ Rk4Raise \/ Rk4Return

SpecRk == InitRk /\ [][NextRk]_vars

(***************************************************************************)
(* main(), lines 51-83.  A velocity profile is abstracted to the model it  *)
(* belongs to and its kind: "zero" (all zeros: what outflows returns for a *)
(* model without critical point, and what np.zeros allocates), "init" (a   *)
(* solution of miranda), "new" (a solution of prospero) or "relaxed" (a    *)
(* blend uinj**(1-itexp) * uj**itexp).  The convergence metric is counted  *)
(* in thousandths.                                                         *)
(***************************************************************************)
Prof(j, kind) == [mod |-> j, kind |-> kind]
IsZero(p) == p.kind = "zero"
\* the values np.mean(allchange[j,:]) takes when both profiles are nonzero
Metrics == {0, Threshold, Threshold + 1}
\* abs((0 - uinj)/uinj) = 1 at every grid point
One == 1000

\* the condition of the while loop, line 73
LoopCondNoFloor(change, n) == change > Threshold /\ n < MaxIter
LoopCondLate(change, n) == (change > Threshold /\ n <= MaxIter) \/ n < MinIter
LoopCond(change, n) == (change > Threshold /\ n < MaxIter) \/ n < MinIter

\* uinj**(1.0-itexp) * uj**itexp, line 77
Relax(old, new) ==
  IF IsZero(old) \/ IsZero(new) THEN Prof(old.mod, "zero")
  ELSE Prof(old.mod, "relaxed")

\* what outflows gives model j: a solution of the given kind, or zeros when
\* the model has no critical point (icrit[j] = -1)
Solutions(j, kind) == {Prof(j, kind), Prof(j, "zero")}

\* fullRHS divides B by u (line 604): numpy raises on a zero velocity
FullRHSRaises(uarg) == \E j \in DOMAIN uarg : IsZero(uarg[j])

InitMain ==
  /\ RkIdle
  /\ OutIdle
  /\ CurveIdle
  /\ TailIdle
  /\ RhoIdle
  /\ BzIdle
  /\ m_pc = "miranda"
  /\ m_j = 0
  /\ it = 0
  /\ changemodels = [j \in Models |-> One]
  /\ u1 = [j \in Models |-> Prof(j, "zero")]
  /\ uinj = Prof(0, "zero")
  /\ uout = [j \in Models |-> Prof(j, "zero")]
  /\ u = [j \in Models |-> Prof(j, "zero")]

\* lines 51-65: the initial solution of every model
Miranda ==
  /\ m_pc = "miranda"
  /\ \E sol \in [Models -> {"init", "zero"}] :
       u1' = [j \in Models |-> Prof(j, sol[j])]
  /\ m_pc' = "model"
  /\ UNCHANGED <<m_j, it, changemodels, uinj, uout, u>>
  /\ UNCHANGED <<rkVars, outVars, curveVars,
                 tailVars, rhoVars, bzVars>>

\* lines 66-72: the loop over the models, up to the while loop
StartModel ==
  /\ m_pc = "model"
  /\ m_j < NMods
  /\ it' = 0
  /\ uinj' = u1[m_j]
  /\ m_pc' = "loop"
  /\ UNCHANGED <<m_j, changemodels, u1, uout, u>>
  /\ UNCHANGED <<rkVars, outVars, curveVars,
                 tailVars, rhoVars, bzVars>>

\* lines 74-79: one iteration of the while loop
Iterate ==
  /\ m_pc = "loop"
  /\ LoopCond(changemodels[m_j], it)
  /\ ~FullRHSRaises(<<uinj>>)
  /\ \E uj \in Solutions(m_j, "new"), c \in Metrics :
       /\ changemodels' =
            [changemodels EXCEPT ![m_j] = IF IsZero(uj) THEN One ELSE c]
       /\ uinj' = Relax(uinj, uj)
  /\ it' = it + 1
  /\ UNCHANGED <<m_pc, m_j, u1, uout, u>>
  /\ UNCHANGED <<rkVars, outVars, curveVars,
                 tailVars, rhoVars, bzVars>>

\* line 74: prospero raises FloatingPointError and main ends with it
IterateRaise ==
  /\ m_pc = "loop"
  /\ LoopCond(changemodels[m_j], it)
  /\ FullRHSRaises(<<uinj>>)
  /\ m_pc' = "aborted"
  /\ UNCHANGED <<m_j, it, changemodels, u1, uinj, uout, u>>
  /\ UNCHANGED <<rkVars, outVars, curveVars,
                 tailVars, rhoVars, bzVars>>

\* lines 80-81: the while loop ends and the guess is stored
Store ==
  /\ m_pc = "loop"
  /\ ~LoopCond(changemodels[m_j], it)
  /\ uout' = [uout EXCEPT ![m_j] = uinj]
  /\ m_j' = m_j + 1
  /\ m_pc' = "model"
  /\ UNCHANGED <<it, changemodels, u1, uinj, u>>
  /\ UNCHANGED <<rkVars, outVars, curveVars,
                 tailVars, rhoVars, bzVars>>

\* line 83: the final pass on all models together
Joint ==
  /\ m_pc = "model"
  /\ m_j = NMods
  /\ ~FullRHSRaises(uout)
  /\ \E sol \in [Models -> {"new", "zero"}] :
       u' = [j \in Models |-> Prof(uout[j].mod, sol[j])]
  /\ m_pc' = "done"
  /\ UNCHANGED <<m_j, it, changemodels, u1, uinj, uout>>
  /\ UNCHANGED <<rkVars, outVars, curveVars,
                 tailVars, rhoVars, bzVars>>

\* line 83: prospero raises FloatingPointError
JointRaise ==
  /\ m_pc = "model"
  /\ m_j = NMods
  /\ FullRHSRaises(uout)
  /\ m_pc' = "aborted"
  /\ UNCHANGED <<m_j, it, changemodels, u1, uinj, uout, u>>
  /\ UNCHANGED <<rkVars, outVars, curveVars,
                 tailVars, rhoVars, bzVars>>

NextMain ==
  \/ Miranda \/ StartModel \/ Iterate \/ IterateRaise \/ Store
  \/ Joint \/ JointRaise

\* main() runs on: every statement is followed by the next
SpecMain == InitMain /\ [][NextMain]_vars /\ WF_vars(NextMain)

\* the loop of model m_j stops here
StopCond(change, n) ==
  (change <= Threshold /\ n >= MinIter) \/ n = MaxIter

(***************************************************************************)
(* C1: main() ends (with the results or with the exception of a call),     *)
(* the iteration counter never exceeds MaxIter, and at the exit of the     *)
(* loop of every model MinIter <= it <= MaxIter.                           *)
(***************************************************************************)
C1_IterationBounds ==
  /\ [](/\ it <= MaxIter
        /\ (m_pc = "model" /\ m_j > 0) => (MinIter <= it /\ it <= MaxIter))
  /\ <>(m_pc \in {"done", "aborted"})

\* the loop of model 0 ends at the floor, the metric below the threshold
C1_Witness ==
  /\ m_pc = "model" /\ m_j = 1
  /\ it = MinIter
  /\ changemodels[0] < Threshold

(***************************************************************************)
(* C2: the loop of a model stops exactly when (metric <= 0.005 and         *)
(* it >= 10) or it = 300; leaving it raises no error and stores the last   *)
(* relaxed guess uinj as uout[j], also when the cap was reached with the   *)
(* metric above the threshold, and the final pass is run on uout.          *)
(***************************************************************************)
C2_StopsExactly ==
  /\ [][m_pc = "loop" =>
         IF StopCond(changemodels[m_j], it)
         THEN /\ m_pc' = "model"
              /\ m_j' = m_j + 1
              /\ uout' = [uout EXCEPT ![m_j] = uinj]
              /\ it' = it
         ELSE /\ m_pc' \in {"loop", "aborted"}
              /\ m_pc' = "loop" => it' = it + 1]_vars
  /\ [](m_pc = "done" =>
          \A j \in Models :
            uout[j] = Prof(j, "relaxed") /\ u[j].mod = j)

\* a run that ends with results although the loop of a model stopped at
\* the cap with the metric above the threshold
C2_Witness ==
  /\ m_pc = "done"
  /\ it = MaxIter
  /\ \E j \in Models : changemodels[j] > Threshold

(***************************************************************************)
(* C4: when miranda finds no critical point for a model of the batch, the  *)
(* run of main() does not abort.                                           *)
(***************************************************************************)
C4_BatchContinues ==
  (m_pc # "miranda" /\ \E j \in Models : IsZero(u1[j])) => m_pc # "aborted"

(***************************************************************************)
(* outflows(r, nmods, nsteps, rhs, ucr), lines 719-752: the running        *)
(* integral F of every model, then the candidate roots and the critical    *)
(* index icrit of every model.                                             *)
(***************************************************************************)
\* the shared grid r: strictly increasing
Grid == [k \in Steps |-> k + 1]
RhsVals == {<<-1, RhsDen>>, <<1, RhsDen>>}
Profiles == [Steps -> RhsVals]
Zeros == [k \in Steps |-> 0]

\* F[j,0..k] of one model, by k calls of rk4 in single-profile mode; Raise
\* when one of the calls raises
RECURSIVE FRow(_, _)
FRow(rhsj, k) ==
  IF k = 0 THEN Ok([i \in {0} |-> Q(1)])
  ELSE With(FRow(rhsj, k - 1), LAMBDA prev :
         IF ~prev.ok THEN Raise
         ELSE With(rk4(prev.v[k - 1], Q(Grid[k - 1]),
                       Q(Grid[k] - Grid[k - 1]),
                       [mode |-> "plain", r |-> Grid, dfdr |-> rhsj]),
                   LAMBDA nx :
                IF ~nx.ok THEN Raise
                ELSE Ok([i \in 0..k |-> IF i = k THEN nx.v ELSE prev.v[i]])))

\* the 4-point sign test of index k
SignTest(rhsj, k) ==
  /\ RSign(rhsj[k]) # RSign(rhsj[k + 1])
  /\ RSign(rhsj[k - 1]) # RSign(rhsj[k + 2])

\* for k in range(1,nsteps-2): if <sign test>: rootflag[k] = 1
MarkRoots(flag, rhsj) ==
  [k \in Steps |->
     IF k \in 1..(NSteps - 3) /\ SignTest(rhsj, k) THEN 1 ELSE flag[k]]

\* roots = np.where(rootflag > 0)
Roots(flag) == {k \in Steps : flag[k] > 0}

\* roots[0][F[j,roots[0]].argmin()]: the first root at which F is least
ArgminRoot(Fj, roots) ==
  CHOOSE k \in roots :
    \A m \in roots : RLt(Fj[k], Fj[m]) \/ (Fj[k] = Fj[m] /\ k <= m)

\* icrit[j] from the flags as they stand after the scan of model j
SelectCrit(flag, Fj) ==
  IF Roots(flag) = {} THEN -1 ELSE ArgminRoot(Fj, Roots(flag))

InitOut ==
  /\ RkIdle
  /\ MainIdle
  /\ CurveIdle
  /\ TailIdle
  /\ RhoIdle
  /\ BzIdle
  /\ o_pc = "integrate"
  /\ o_j = 0
  /\ rhs \in [Models -> Profiles]
  /\ F = [j \in Models |-> [k \in Steps |-> Q(0)]]
  /\ rootflag = Zeros
  /\ icrit = [j \in Models |-> 0]
  /\ badflag = 0

\* lines 726-735
ComputeF ==
  /\ o_pc = "integrate"
  /\ \E rows \in {[j \in Models |-> FRow(rhs[j], NSteps - 1)]} :
       IF \A j \in Models : rows[j].ok
       THEN /\ F' = [j \in Models |-> rows[j].v]
            /\ o_pc' = "roots"
       ELSE /\ F' = F
            /\ o_pc' = "raised"
  /\ UNCHANGED <<o_j, rhs, rootflag, icrit, badflag>>
  /\ UNCHANGED <<rkVars, mainVars, curveVars,
                 tailVars, rhoVars, bzVars>>

\* lines 737-750, one pass of the loop over the models
FindRoots ==
  /\ o_pc = "roots"
  /\ o_j < NMods
  /\ \E flag \in {MarkRoots(rootflag, rhs[o_j])} :
       /\ rootflag' = flag
       /\ icrit' = [icrit EXCEPT ![o_j] = SelectCrit(flag, F[o_j])]
       /\ badflag' = IF Roots(flag) = {} THEN 1 ELSE badflag
  /\ o_j' = o_j + 1
  /\ UNCHANGED <<o_pc, rhs, F>>
  /\ UNCHANGED <<rkVars, mainVars, curveVars,
                 tailVars, rhoVars, bzVars>>

\* lines 751-752, the end of the loop
Located ==
  /\ o_pc = "roots"
  /\ o_j = NMods
  /\ o_pc' = "located"
  /\ UNCHANGED <<o_j, rhs, F, rootflag, icrit, badflag>>
  /\ UNCHANGED <<rkVars, mainVars, curveVars,
                 tailVars, rhoVars, bzVars>>

NextOut == ComputeF \/ FindRoots \/ Located

SpecOut == InitOut /\ [][NextOut]_vars

\* the candidate roots of one model's own RHS
OwnCandidates(rhsj) == {k \in 1..(NSteps - 3) : SignTest(rhsj, k)}

\* icrit of a model run alone (nmods = 1) with the same inputs
AloneCrit(rhsj, Fj) == SelectCrit(MarkRoots(Zeros, rhsj), Fj)

(***************************************************************************)
(* C3: in a batch, every model whose own RHS has no index passing the sign *)
(* test gets icrit[j] = -1, whatever the other models are.                 *)
(***************************************************************************)
C3_SentinelPerModel ==
  o_pc = "located" =>
    \A j \in Models : OwnCandidates(rhs[j]) = {} => icrit[j] = -1

(***************************************************************************)
(* C5: the critical index of a model in a batch is the one it gets when    *)
(* it is run alone with the same inputs.                                   *)
(***************************************************************************)
C5_BatchAsAlone ==
  o_pc = "located" =>
    \A j \in Models : icrit[j] = AloneCrit(rhs[j], F[j])

(***************************************************************************)
(* C6: the index selected for a model without the sentinel passes the sign *)
(* test on that model's own RHS.                                           *)
(***************************************************************************)
C6_SelectedIsCandidate ==
  o_pc = "located" =>
    \A j \in Models : icrit[j] # -1 => icrit[j] \in OwnCandidates(rhs[j])

(***************************************************************************)
(* C7: a model with one candidate gets that index; a model with several    *)
(* gets the candidate with the least F, the lowest index among equals.     *)
(***************************************************************************)
C7_LeastIntegral ==
  o_pc = "located" =>
    \A j \in Models :
      OwnCandidates(rhs[j]) # {} =>
        icrit[j] = ArgminRoot(F[j], OwnCandidates(rhs[j]))

(***************************************************************************)
(* slope2curve(r, iC, rpt, upt, dUdrpt, ucrj, rhsj), lines 834-861, on the *)
(* grid Grid.  rpt is the midpoint of r[iC] and r[iC+1], as outflows       *)
(* passes it.  The value rk4 returns in critical-ODE mode is any of        *)
(* RkResults; rk4 raises when it starts from a zero velocity (dfdrval      *)
(* divides by uval).                                                       *)
(***************************************************************************)
RkResults == {Q(v) : v \in -1..MaxU}
NotSet == [set |-> FALSE, v |-> Q(0)]
rpt == RDiv(Q(Grid[iC] + Grid[iC + 1]), Q(2))

\* lines 849-850 and 858-859: a negative value is replaced by the value of
\* the point the step started from
KeepRaw(val, from) == val
NonNegative(val, from) == IF RLt(val, Q(0)) THEN from ELSE val

\* the indices outflows can pass as iC: those the scan of lines 738-741
\* can flag
SelectableCrit == UNION {Roots(MarkRoots(Zeros, p)) : p \in Profiles}

\* for i in range(iC-1,0,-1): the first index of the loop down
DownFromCrit(ic) == ic
DownFrom(ic) == ic - 1
\* for i in range(iC+2,npoints-1): the first index of the loop up and the
\* index at which it stops
UpFrom(ic) == ic + 2
UpStopLate == NSteps
UpStop == NSteps - 1

InitCurve ==
  /\ RkIdle
  /\ OutIdle
  /\ MainIdle
  /\ TailIdle
  /\ RhoIdle
  /\ BzIdle
  /\ c_pc = "seed"
  /\ iC \in SelectableCrit
  /\ upt \in {Q(v) : v \in 0..MaxU}
  /\ dUdrpt \in [0..1 -> {Q(v) : v \in -1..1}]
  /\ ucurve = [k \in Steps |-> Q(0)]
  /\ c_i = 0
  /\ c_raw = [k \in Steps |-> NotSet]
  /\ c_calls = {}
  /\ c_writes = [k \in Steps |-> <<>>]
  /\ c_reads = {}

\* lines 838-842: the four points around the critical point
Seed ==
  /\ c_pc = "seed"
  /\ \E a \in {RAdd(upt, RMul(RSub(Q(Grid[iC]), rpt), dUdrpt[0]))},
        b \in {RAdd(upt, RMul(RSub(Q(Grid[iC + 1]), rpt), dUdrpt[1]))} :
       ucurve' = [ucurve EXCEPT
         ![iC] = a,
         ![iC + 1] = b,
         ![iC - 1] = RAdd(a, RMul(Q(Grid[iC - 1] - Grid[iC]), dUdrpt[0])),
         ![iC + 2] = RAdd(b, RMul(Q(Grid[iC + 2] - Grid[iC + 1]), dUdrpt[1]))]
  /\ c_writes' = [k \in Steps |->
                    IF k \in {iC, iC + 1, iC - 1, iC + 2}
                    THEN Append(c_writes[k], "seed") ELSE c_writes[k]]
  /\ c_reads' = c_reads \cup {iC, iC + 1, iC - 1, iC + 2}
  /\ c_i' = DownFrom(iC)
  /\ c_pc' = "down"
  /\ UNCHANGED <<iC, upt, dUdrpt, c_raw, c_calls>>
  /\ UNCHANGED <<rkVars, outVars, mainVars,
                 tailVars, rhoVars, bzVars>>

\* lines 844-851: one pass of the loop for i in range(iC-1,0,-1)
Down ==
  /\ c_pc = "down"
  /\ c_i > 0
  /\ ~RIsZero(ucurve[c_i])
  /\ \E val \in RkResults :
       /\ ucurve' = [ucurve EXCEPT
                      ![c_i - 1] = NonNegative(val, ucurve[c_i])]
       /\ c_raw' = [c_raw EXCEPT ![c_i - 1] = [set |-> TRUE, v |-> val]]
  /\ c_calls' = c_calls \cup {<<c_i, c_i - 1>>}
  /\ c_writes' = [c_writes EXCEPT ![c_i - 1] = Append(@, "rk4")]
  /\ c_reads' = c_reads \cup {c_i - 1, c_i}
  /\ c_i' = c_i - 1
  /\ UNCHANGED <<c_pc, iC, upt, dUdrpt>>
  /\ UNCHANGED <<rkVars, outVars, mainVars,
                 tailVars, rhoVars, bzVars>>

\* the loop down is over: the loop for i in range(iC+2,npoints-1) starts
DownEnd ==
  /\ c_pc = "down"
  /\ c_i <= 0
  /\ c_i' = UpFrom(iC)
  /\ c_pc' = "up"
  /\ UNCHANGED <<iC, upt, dUdrpt, ucurve, c_raw, c_calls, c_writes, c_reads>>
  /\ UNCHANGED <<rkVars, outVars, mainVars,
                 tailVars, rhoVars, bzVars>>

\* lines 853-860: one pass of the loop up; r[i+1] beyond the end of the
\* array is an IndexError
Up ==
  /\ c_pc = "up"
  /\ c_i < UpStop
  /\ c_reads' = c_reads \cup {c_i + 1, c_i}
  /\ IF c_i + 1 \in Steps
     THEN /\ ~RIsZero(ucurve[c_i])
          /\ \E val \in RkResults :
               /\ ucurve' = [ucurve EXCEPT
                              ![c_i + 1] = NonNegative(val, ucurve[c_i])]
               /\ c_raw' = [c_raw EXCEPT
                              ![c_i + 1] = [set |-> TRUE, v |-> val]]
          /\ c_calls' = c_calls \cup {<<c_i, c_i + 1>>}
          /\ c_writes' = [c_writes EXCEPT ![c_i + 1] = Append(@, "rk4")]
          /\ c_i' = c_i + 1
          /\ UNCHANGED c_pc
     ELSE /\ c_pc' = "indexerror"
          /\ UNCHANGED <<ucurve, c_raw, c_calls, c_writes, c_i>>
  /\ UNCHANGED <<iC, upt, dUdrpt>>
  /\ UNCHANGED <<rkVars, outVars, mainVars,
                 tailVars, rhoVars, bzVars>>

\* lines 848 and 857: rk4 raises FloatingPointError
CurveRaise ==
  /\ \/ c_pc = "down" /\ c_i > 0
     \/ c_pc = "up" /\ c_i < UpStop /\ c_i + 1 \in Steps
  /\ RIsZero(ucurve[c_i])
  /\ c_pc' = "raised"
  /\ UNCHANGED <<iC, upt, dUdrpt, ucurve, c_i, c_raw, c_calls, c_writes,
                 c_reads>>
  /\ UNCHANGED <<rkVars, outVars, mainVars,
                 tailVars, rhoVars, bzVars>>

\* line 861
CurveReturn ==
  /\ c_pc = "up"
  /\ c_i >= UpStop
  /\ c_pc' = "done"
  /\ UNCHANGED <<iC, upt, dUdrpt, ucurve, c_i, c_raw, c_calls, c_writes,
                 c_reads>>
  /\ UNCHANGED <<rkVars, outVars, mainVars,
                 tailVars, rhoVars, bzVars>>

NextCurve ==
  Seed \/ Down \/ DownEnd \/ Up \/ CurveRaise \/ CurveReturn

SpecCurve == InitCurve /\ [][NextCurve]_vars

\* the grid points filled by an integration step, and for each the point
\* the step started from
Integrated == {k \in Steps : k < iC - 1 \/ k > iC + 2}
StartOf(k) == IF k < iC THEN k + 1 ELSE k - 1

(***************************************************************************)
(* C10: a grid point for which rk4 returns a negative velocity gets the    *)
(* value of the point the step started from, any other gets the value      *)
(* rk4 returned, and no error is raised by it; if the seeds u[iC-1] and    *)
(* u[iC+2] are not negative, no point filled by integration is negative    *)
(* on return.                                                              *)
(***************************************************************************)
C10_NegativeReplaced ==
  /\ c_pc = "done" =>
       /\ \A k \in Integrated :
            /\ c_raw[k].set
            /\ ucurve[k] = IF RLt(c_raw[k].v, Q(0)) THEN ucurve[StartOf(k)]
                            ELSE c_raw[k].v
       /\ (~RLt(ucurve[iC - 1], Q(0)) /\ ~RLt(ucurve[iC + 2], Q(0)))
            => \A k \in Integrated : ~RLt(ucurve[k], Q(0))
  /\ c_pc = "raised" => RIsZero(ucurve[c_i])

\* slope2curve returns after a negative result of rk4 on the way down and
\* one on the way up, from seeds that are not negative
C10_Witness ==
  /\ c_pc = "done"
  /\ ~RLt(ucurve[iC - 1], Q(0)) /\ ~RLt(ucurve[iC + 2], Q(0))
  /\ \E k \in Integrated : k < iC /\ RLt(c_raw[k].v, Q(0))
  /\ \E k \in Integrated : k > iC /\ RLt(c_raw[k].v, Q(0))

(***************************************************************************)
(* C8: rk4 returns the value of the solution at ri + dr whatever the       *)
(* number of passes of the adaptive loop; for a constant slope s the       *)
(* value returned is fi + s*dr.                                            *)
(***************************************************************************)
C8_ConstantSlope ==
  (rk_pc = "done" /\ rk_src.mode = "plain")
    => ff = RAdd(rk_fi, RMul(rk_src.dfdr[0], rk_dr))

(***************************************************************************)
(* C9: the accumulated distance never exceeds |dr|, every pass moves in    *)
(* the direction of dr, rk4 returns with the accumulated distance equal to *)
(* |dr|, and the pass made after more than StepCap passes covers all the   *)
(* remaining distance, so there are at most StepCap + 2 passes.            *)
(***************************************************************************)
C9_StepsBounded ==
  /\ ~RLt(RAbs(rk_dr), RAbs(stepstotal))
  /\ stepstaken > 0 => RSign(deltar) = RSign(rk_dr)
  /\ rstep = RAdd(rk_ri, RMul(Q(RSign(rk_dr)), stepstotal))
  /\ rk_pc = "done" => RAbs(stepstotal) = RAbs(rk_dr)
  /\ stepstaken <= StepCap + 2
  /\ stepstaken = StepCap + 2 => RAbs(stepstotal) = RAbs(rk_dr)

\* rk4 returns after the pass that the cap forced to cover the rest
C9_Witness ==
  /\ rk_pc = "done"
  /\ stepstaken = StepCap + 2
  /\ RLt(Q(0), RSub(RAbs(deltar), adaptiveconstant))

(***************************************************************************)
(* quickDeriv(f, r, fsets, steps), lines 249-259, for one model and one    *)
(* index: one-sided differences at the two ends, centred differences in    *)
(* between, on the grid Grid.                                              *)
(***************************************************************************)
quickDeriv(fj, k) ==
  IF k = 0 THEN RDiv(RSub(fj[1], fj[0]), Q(Grid[1] - Grid[0]))
  ELSE IF k = NSteps - 1
  THEN RDiv(RSub(fj[NSteps - 1], fj[NSteps - 2]),
            Q(Grid[NSteps - 1] - Grid[NSteps - 2]))
  ELSE RDiv(RSub(fj[k + 1], fj[k - 1]), Q(Grid[k + 1] - Grid[k - 1]))

\* the precision of the square roots of the model: 1/SqrtDen
SqrtDen == 100

\* the largest integer whose square is at most n, n in lo..hi
RECURSIVE ISqrtIn(_, _, _)
ISqrtIn(n, lo, hi) ==
  IF lo >= hi THEN lo
  ELSE With((lo + hi + 1) \div 2, LAMBDA mid :
         IF mid * mid <= n THEN ISqrtIn(n, mid, hi)
         ELSE ISqrtIn(n, lo, mid - 1))

\* np.sqrt(x) for x >= 0, rounded down to a multiple of 1/SqrtDen
Sqrt(x) ==
  With((x[1] * SqrtDen * SqrtDen) \div x[2], LAMBDA n :
    Norm(ISqrtIn(n, 0, IF n < 40000 THEN n ELSE 40000), SqrtDen))

\* lines 809-811: a radicand that is not positive is set to 0 and the
\* warning is printed
RadicandAbs(radicand) == [v |-> RAbs(radicand), warn |-> FALSE]
Radicand(radicand) ==
  IF ~RLt(Q(0), radicand) THEN [v |-> Q(0), warn |-> TRUE]
  ELSE [v |-> radicand, warn |-> FALSE]

\* duCdr[j,indexcrit[j]]**2 + (2.0*dNdrC[j]), line 808
RadicandOf(rhsj, ucrj, idx) ==
  With(quickDeriv(ucrj, idx), LAMBDA duCdr :
    RAdd(RMul(duCdr, duCdr), RMul(Q(2), quickDeriv(rhsj, idx))))

(***************************************************************************)
(* critSlope(r, models, steps, rhs, ucr, indexcrit), lines 797-815, for    *)
(* one model: the entries rC[j], uC[j], dUdrc[j] of the arrays returned,   *)
(* and whether the warning of line 811 was printed for the model.          *)
(***************************************************************************)
critSlopeRow(rhsj, ucrj, idx) ==
  IF idx = -1
  THEN [rC |-> Q(0), uC |-> Q(0), dUdrc |-> Q(0), warned |-> FALSE]
  ELSE With(Radicand(RadicandOf(rhsj, ucrj, idx)), LAMBDA rad :
         [rC |-> Q(Grid[idx]),
          uC |-> ucrj[idx],
          dUdrc |-> RDiv(RAdd(quickDeriv(ucrj, idx), Sqrt(rad.v)), Q(2)),
          warned |-> rad.warn])

critSlope(rhsa, ucra, indexcrit) ==
  [j \in Models |-> critSlopeRow(rhsa[j], ucra[j], indexcrit[j])]

(***************************************************************************)
(* outflows(), lines 754-771: the two calls of critSlope and the loop that *)
(* builds the profile of every model.  The inputs are RHS profiles of one  *)
(* sign, with one change of sign (at the edge of the grid or inside it,    *)
(* rising or falling) or with one isolated sample of the other sign, and   *)
(* a critical-speed profile that is flat or rising.                        *)
(***************************************************************************)
Neg == <<-1, RhsDen>>
Pos == <<1, RhsDen>>
StepUp(m) == [k \in Steps |-> IF k < m THEN Neg ELSE Pos]
StepDown(m) == [k \in Steps |-> IF k < m THEN Pos ELSE Neg]
Spike(m) == [k \in Steps |-> IF k = m THEN Neg ELSE Pos]
TailProfiles ==
  {StepUp(m) : m \in 0..3}
  \cup {StepDown(m) : m \in {2, NSteps - 2}}
  \cup {Spike(2)}
UcrProfiles ==
  {[k \in Steps |-> Q(1)], [k \in Steps |-> <<2 * (k + 1), 5>>]}

\* the values slope2curve leaves at the points it integrates to
CurveFills == {Q(0), Q(MaxU)}

\* the profile slope2curve returns: the four points of lines 838-842, and
\* fill at the points set by lines 844-860
slope2curve(ic, rp, up, dU, fill) ==
  With(RAdd(up, RMul(RSub(Q(Grid[ic]), rp), dU[0])), LAMBDA a :
  With(RAdd(up, RMul(RSub(Q(Grid[ic + 1]), rp), dU[1])), LAMBDA b :
    [k \in Steps |->
       IF k = ic THEN a
       ELSE IF k = ic + 1 THEN b
       ELSE IF k = ic - 1
         THEN RAdd(a, RMul(Q(Grid[ic - 1] - Grid[ic]), dU[0]))
       ELSE IF k = ic + 2
         THEN RAdd(b, RMul(Q(Grid[ic + 2] - Grid[ic + 1]), dU[1]))
       ELSE fill]))

\* the number of calls of rk4 slope2curve makes for the critical index ic
CurveSteps(ic) ==
  Cardinality({i \in Steps : 0 < i /\ i <= DownFrom(ic)})
  + Cardinality({i \in Steps : UpFrom(ic) <= i /\ i < UpStop})

InitTail ==
  /\ RkIdle
  /\ MainIdle
  /\ CurveIdle
  /\ RhoIdle
  /\ BzIdle
  /\ o_pc = "integrate"
  /\ o_j = 0
  /\ rhs \in [Models -> TailProfiles]
  /\ F = [j \in Models |-> [k \in Steps |-> Q(0)]]
  /\ rootflag = Zeros
  /\ icrit = [j \in Models |-> 0]
  /\ badflag = 0
  /\ ucr \in {[j \in Models |-> p] : p \in UcrProfiles}
  /\ plus = <<>>
  /\ minus = <<>>
  /\ locCrit = [j \in Models |-> Q(0)]
  /\ uflow = [j \in Models |-> [k \in Steps |-> Q(0)]]
  /\ calls = [j \in Models |-> 0]

\* line 754
SlopePlus ==
  /\ o_pc = "located"
  /\ plus' = critSlope(rhs, ucr, [j \in Models |-> icrit[j] + 1])
  /\ o_pc' = "plus"
  /\ UNCHANGED <<o_j, rhs, F, rootflag, icrit, badflag>>
  /\ UNCHANGED <<ucr, minus, locCrit, uflow, calls>>
  /\ UNCHANGED <<rkVars, mainVars, curveVars, rhoVars, bzVars>>

\* lines 755-761
SlopeMinus ==
  /\ o_pc = "plus"
  /\ minus' = critSlope(rhs, ucr, icrit)
  /\ o_pc' = "assemble"
  /\ o_j' = 0
  /\ UNCHANGED <<rhs, F, rootflag, icrit, badflag>>
  /\ UNCHANGED <<ucr, plus, locCrit, uflow, calls>>
  /\ UNCHANGED <<rkVars, mainVars, curveVars, rhoVars, bzVars>>

\* rC[j] and uC[j], lines 763-764
MidrC(j) == RDiv(RAdd(minus[j].rC, plus[j].rC), Q(2))
MiduC(j) == RDiv(RAdd(minus[j].uC, plus[j].uC), Q(2))

\* lines 762-767, a model with icrit[j] = -1
AssembleSkipLocated ==
  /\ o_pc = "assemble"
  /\ o_j < NMods
  /\ icrit[o_j] = -1
  /\ locCrit' = [locCrit EXCEPT ![o_j] = RSub(MidrC(o_j), Q(1))]
  /\ o_j' = o_j + 1
  /\ UNCHANGED <<o_pc, rhs, F, rootflag, icrit, badflag>>
  /\ UNCHANGED <<ucr, plus, minus, uflow, calls>>
  /\ UNCHANGED <<rkVars, mainVars, curveVars, rhoVars, bzVars>>

AssembleSkip ==
  /\ o_pc = "assemble"
  /\ o_j < NMods
  /\ icrit[o_j] = -1
  /\ o_j' = o_j + 1
  /\ UNCHANGED <<o_pc, rhs, F, rootflag, icrit, badflag>>
  /\ UNCHANGED tailVars
  /\ UNCHANGED <<rkVars, mainVars, curveVars, rhoVars, bzVars>>

\* lines 762-770, a model with a critical index: slope2curve returns
AssembleCurve ==
  /\ o_pc = "assemble"
  /\ o_j < NMods
  /\ icrit[o_j] # -1
  /\ locCrit' = [locCrit EXCEPT ![o_j] = RSub(MidrC(o_j), Q(1))]
  /\ \E fill \in CurveFills :
       uflow' = [uflow EXCEPT ![o_j] =
                   slope2curve(icrit[o_j], MidrC(o_j), MiduC(o_j),
                               [i \in 0..1 |-> IF i = 0 THEN minus[o_j].dUdrc
                                               ELSE plus[o_j].dUdrc],
                               fill)]
  /\ calls' = [calls EXCEPT ![o_j] = @ + 1]
  /\ o_j' = o_j + 1
  /\ UNCHANGED <<o_pc, rhs, F, rootflag, icrit, badflag>>
  /\ UNCHANGED <<ucr, plus, minus>>
  /\ UNCHANGED <<rkVars, mainVars, curveVars, rhoVars, bzVars>>

\* lines 767-770: a call of rk4 in slope2curve raises FloatingPointError
AssembleRaise ==
  /\ o_pc = "assemble"
  /\ o_j < NMods
  /\ icrit[o_j] # -1
  /\ CurveSteps(icrit[o_j]) > 0
  /\ locCrit' = [locCrit EXCEPT ![o_j] = RSub(MidrC(o_j), Q(1))]
  /\ calls' = [calls EXCEPT ![o_j] = @ + 1]
  /\ o_pc' = "raised"
  /\ UNCHANGED <<o_j, rhs, F, rootflag, icrit, badflag>>
  /\ UNCHANGED <<ucr, plus, minus, uflow>>
  /\ UNCHANGED <<rkVars, mainVars, curveVars, rhoVars, bzVars>>

\* line 771
OutReturn ==
  /\ o_pc = "assemble"
  /\ o_j = NMods
  /\ o_pc' = "done"
  /\ UNCHANGED <<o_j, rhs, F, rootflag, icrit, badflag>>
  /\ UNCHANGED tailVars
  /\ UNCHANGED <<rkVars, mainVars, curveVars, rhoVars, bzVars>>

NextTail ==
  \/ ComputeF \/ FindRoots \/ Located
  \/ SlopePlus \/ SlopeMinus
  \/ AssembleSkip \/ AssembleCurve \/ AssembleRaise \/ OutReturn

SpecTail == InitTail /\ [][NextTail]_vars

\* the index critSlope is given for model j in the call of line 754 (plus)
\* and in the call of line 755 (minus)
PlusIndex(j) == icrit[j] + 1
MinusIndex(j) == icrit[j]

\* res is what critSlope returns for a model of index idx /= -1 according
\* to the sign of the radicand
SlopeAsClaimed(res, rhsj, ucrj, idx) ==
  LET duCdr == quickDeriv(ucrj, idx)
      radicand == RadicandOf(rhsj, ucrj, idx)
      root == RSub(RMul(Q(2), res.dUdrc), duCdr)
      next == RAdd(root, <<1, SqrtDen>>)
  IN  /\ RLt(radicand, Q(0)) =>
           /\ res.warned
           /\ res.dUdrc = RDiv(duCdr, Q(2))
      /\ RLt(Q(0), radicand) =>
           /\ ~res.warned
           /\ ~RLt(root, Q(0))
           /\ ~RLt(radicand, RMul(root, root))
           /\ RLt(radicand, RMul(next, next))

(***************************************************************************)
(* C11: in both calls of critSlope, for every model whose index is not -1: *)
(* with a negative radicand the warning is printed and the slope is        *)
(* 0.5*duC/dr; with a positive radicand no warning is printed and the      *)
(* slope is 0.5*(duC/dr + sqrt(radicand)), the square root taken to the    *)
(* precision 1/SqrtDen; critSlope raises no error (outflows goes on to     *)
(* the loop of lines 762-770, and the only error is one of slope2curve).   *)
(***************************************************************************)
C11_RadicandClamped ==
  /\ [](o_pc \in {"plus", "assemble", "done", "raised"} /\ plus # <<>> =>
          \A j \in Models :
            PlusIndex(j) # -1 =>
              SlopeAsClaimed(plus[j], rhs[j], ucr[j], PlusIndex(j)))
  /\ [](o_pc \in {"assemble", "done", "raised"} /\ minus # <<>> =>
          \A j \in Models :
            MinusIndex(j) # -1 =>
              SlopeAsClaimed(minus[j], rhs[j], ucr[j], MinusIndex(j)))
  /\ [][/\ o_pc = "located" => o_pc' = "plus"
        /\ o_pc = "plus" => o_pc' = "assemble"]_vars

\* both calls are over: a model with a critical index had a negative
\* radicand in one call, and a model a positive one
C11_Witness ==
  /\ o_pc = "assemble"
  /\ \E j \in Models :
       /\ icrit[j] # -1
       /\ RLt(RadicandOf(rhs[j], ucr[j], MinusIndex(j)), Q(0))
       /\ minus[j].warned
  /\ \E j \in Models :
       /\ icrit[j] # -1
       /\ RLt(Q(0), RadicandOf(rhs[j], ucr[j], PlusIndex(j)))
       /\ ~plus[j].warned
       /\ RLt(Q(0), plus[j].dUdrc)

(***************************************************************************)
(* fullRHS(r, models, steps, B, dBdr, T, dTdr, zTR, u), lines 589-604:     *)
(* the density of every model from the conservation of the mass flux.      *)
(* Temperatures are counted in units of TTR/10, densities in units of      *)
(* 1e-19 g cm^-3.                                                          *)
(***************************************************************************)
TTR == 10

\* zx = (r/Rsun)-1.0, line 578: the heights of the grid
Zx == [k \in Steps |-> <<k + 1, 100>>]

\* the heights of the transition region of the inputs: on a grid point,
\* half way between two grid points, and above the grid
ZTRs == {<<1, 100>>, <<1, 40>>, <<1, 10>>}

\* 10**(-21.904 - (3.349*np.log10(zTR[j]))), at the heights of ZTRs,
\* rounded to four digits
rhoTR(z) ==
  CASE z = <<1, 100>> -> Q(6223)
    [] z = <<1, 40>> -> <<2893, 10>>
    [] z = <<1, 10>> -> <<1393, 500>>

\* the fields, velocities and temperatures of the inputs; the velocity
\* that is zero everywhere is what outflows returns for a model without
\* critical point
FieldProfiles == {[k \in Steps |-> Q(NSteps - k)], [k \in Steps |-> Q(1)]}
SpeedProfiles ==
  {[k \in Steps |-> Q(k + 1)], [k \in Steps |-> Q(MaxU)],
   [k \in Steps |-> Q(0)]}
TempProfiles == {[k \in Steps |-> TTR * (k + 1)], [k \in Steps |-> 2 * TTR]}

\* the first index at which a is least: a.argmin()
Argmin(a) ==
  CHOOSE k \in DOMAIN a :
    \A m \in DOMAIN a : RLt(a[k], a[m]) \/ (a[k] = a[m] /\ k <= m)
\* int(abs(zx - zTR[j]).argmin()), lines 600-601
Nearest(z) == Argmin([k \in Steps |-> RAbs(RSub(Zx[k], z))])

\* np.where(T[j,:] < 1.1*TTR), line 597
Chromosphere(Tj) == {k \in Steps : 10 * Tj[k] < 11 * TTR}

\* (rho[j,iTR[j]]*u[j,iTR[j]]/B[j,iTR[j]])*(B[j,:]/u[j,:]), lines 603-604;
\* Raise when numpy raises FloatingPointError on a division by zero
DensityNoFlux(rhoj, uj, Bj, i) ==
  IF \E k \in Steps : RIsZero(uj[k]) THEN Raise
  ELSE IF RIsZero(Bj[i]) THEN Raise
  ELSE Ok([k \in Steps |-> RMul(rhoj[i], RDiv(Bj[k], Bj[i]))])

Density(rhoj, uj, Bj, i) ==
  IF \E k \in Steps : RIsZero(uj[k]) THEN Raise
  ELSE IF RIsZero(Bj[i]) THEN Raise
  ELSE With(RDiv(RMul(rhoj[i], uj[i]), Bj[i]), LAMBDA flux :
         Ok([k \in Steps |-> RMul(flux, RDiv(Bj[k], uj[k]))]))

InitRho ==
  /\ RkIdle
  /\ OutIdle
  /\ MainIdle
  /\ CurveIdle
  /\ TailIdle
  /\ BzIdle
  /\ f_pc = "anchor"
  /\ f_j = 0
  /\ zTR \in [Models -> ZTRs]
  /\ Bf \in {[j \in Models |-> p] : p \in FieldProfiles}
  /\ uf \in [Models -> SpeedProfiles]
  /\ Tf \in {[j \in Models |-> p] : p \in TempProfiles}
  /\ iTR = [j \in Models |-> 0]
  /\ rho = [j \in Models |-> [k \in Steps |-> Q(0)]]

\* lines 596-602: the index of the transition region and the density there
Anchor ==
  /\ f_pc = "anchor"
  /\ f_j < NMods
  /\ Chromosphere(Tf[f_j]) # {}
  /\ \E i \in {Nearest(zTR[f_j])} :
       /\ iTR' = [iTR EXCEPT ![f_j] = i]
       /\ rho' = [rho EXCEPT ![f_j][i] = rhoTR(zTR[f_j])]
  /\ f_pc' = "density"
  /\ UNCHANGED <<f_j, zTR, Bf, uf, Tf>>
  /\ UNCHANGED <<rkVars, outVars, mainVars, curveVars, tailVars, bzVars>>

\* line 598: no temperature below 1.1*TTR, the index -1 of an empty array
\* is an IndexError
AnchorRaise ==
  /\ f_pc = "anchor"
  /\ f_j < NMods
  /\ Chromosphere(Tf[f_j]) = {}
  /\ f_pc' = "raised"
  /\ UNCHANGED <<f_j, zTR, Bf, uf, Tf, iTR, rho>>
  /\ UNCHANGED <<rkVars, outVars, mainVars, curveVars, tailVars, bzVars>>

\* lines 603-604: the density of model f_j at every grid point
DensityRow ==
  /\ f_pc = "density"
  /\ \E d \in {Density(rho[f_j], uf[f_j], Bf[f_j], iTR[f_j])} :
       /\ d.ok
       /\ rho' = [rho EXCEPT ![f_j] = d.v]
  /\ f_j' = f_j + 1
  /\ f_pc' = "anchor"
  /\ UNCHANGED <<zTR, Bf, uf, Tf, iTR>>
  /\ UNCHANGED <<rkVars, outVars, mainVars, curveVars, tailVars, bzVars>>

\* lines 603-604: a velocity of the model is zero
DensityRaise ==
  /\ f_pc = "density"
  /\ ~Density(rho[f_j], uf[f_j], Bf[f_j], iTR[f_j]).ok
  /\ f_pc' = "raised"
  /\ UNCHANGED <<f_j, zTR, Bf, uf, Tf, iTR, rho>>
  /\ UNCHANGED <<rkVars, outVars, mainVars, curveVars, tailVars, bzVars>>

\* the loop of line 596 is over
DensityDone ==
  /\ f_pc = "anchor"
  /\ f_j = NMods
  /\ f_pc' = "computed"
  /\ UNCHANGED <<f_j, zTR, Bf, uf, Tf, iTR, rho>>
  /\ UNCHANGED <<rkVars, outVars, mainVars, curveVars, tailVars, bzVars>>

NextRho == Anchor \/ AnchorRaise \/ DensityRow \/ DensityRaise \/ DensityDone

SpecRho == InitRho /\ [][NextRho]_vars

\* rho[j,k]*u[j,k]/B[j,k]
MassFlux(j, k) == RDiv(RMul(rho[j][k], uf[j][k]), Bf[j][k])

\* the grid indices nearest to the height z
NearestSet(z) ==
  {k \in Steps :
     \A m \in Steps :
       ~RLt(RAbs(RSub(Zx[m], z)), RAbs(RSub(Zx[k], z)))}

(***************************************************************************)
(* C12: once the density of model j is computed, rho*u/B has one value on  *)
(* the whole grid, that at iTR[j]; iTR[j] is a grid index nearest to       *)
(* zTR[j], and the density there is the anchored value.                    *)
(***************************************************************************)
C12_MassFluxConstant ==
  \A j \in Models :
    (j < f_j /\ f_pc # "idle") =>
      /\ iTR[j] \in NearestSet(zTR[j])
      /\ rho[j][iTR[j]] = rhoTR(zTR[j])
      /\ \A k \in Steps : MassFlux(j, k) = MassFlux(j, iTR[j])

\* the densities of all models are computed, with a transition region
\* between two grid points and a field and a velocity that vary
C12_Witness ==
  /\ f_pc = "computed"
  /\ \E j \in Models :
       /\ zTR[j] = <<1, 40>>
       /\ uf[j][0] # uf[j][1]
       /\ Bf[j][0] # Bf[j][1]
       /\ rho[j][0] # rho[j][1]

(***************************************************************************)
(* read_bzin(zephyrinfile, multiple), lines 199-233.  The file is a        *)
(* sequence of lines, a line a sequence of numbers; pos = <<l, c>> is the  *)
(* place of the next number to be read, number c of line l.  The           *)
(* conversion of decimal text to floats is not part of the model.          *)
(***************************************************************************)
MaxBz == 3       \* the largest number of heights of an input file

\* the numbers of the lines l.. of the file, in order
RECURSIVE TokensFrom(_, _)
TokensFrom(f, l) ==
  IF l > Len(f) THEN <<>> ELSE f[l] \o TokensFrom(f, l + 1)

\* how many numbers of the file come before the place p
Before(f, p) == Len(TokensFrom(f, 1)) - Len(TokensFrom(f, p[1])) + (p[2] - 1)

\* the place of number t + 1 of the file (t numbers come before it); the
\* end of the file when there is none
RECURSIVE PlaceIn(_, _, _)
PlaceIn(f, l, t) ==
  IF l > Len(f) THEN <<l, 1>>
  ELSE IF t < Len(f[l]) THEN <<l, t + 1>>
  ELSE PlaceIn(f, l + 1, t - Len(f[l]))

\* infileopen.readline(): the rest of the line, and the place after it
readline(f, p) ==
  [v |-> IF p[1] > Len(f) THEN <<>>
         ELSE SubSeq(f[p[1]], p[2], Len(f[p[1]])),
   pos |-> <<p[1] + 1, 1>>]

\* np.fromfile(infileopen, count=count, sep=" "): the next count numbers
\* (fewer at the end of the file), then the white space after the last one
\* is skipped, line ends included
fromfile(f, p, count) ==
  With(TokensFrom(f, 1), LAMBDA all :
  With(Before(f, p), LAMBDA t :
  With(IF t + count <= Len(all) THEN count ELSE Len(all) - t, LAMBDA n :
    [v |-> [k \in 0..(n - 1) |-> all[t + k + 1]],
     pos |-> PlaceIn(f, 1, t + n)])))

\* lines 217-228: the heights, with multiple - 1 points added after every
\* height
zxShifted(h, n, mult) ==
  [q \in 0..(n * mult - 1) |->
     LET i == q \div mult
         l == q % mult
         delz == IF i < n - 1 THEN Norm(h[i + 1] - h[i], mult)
                 ELSE Norm(h[n - 1] - h[n - 2], mult)
     IN  RAdd(Q(h[i]), RMul(delz, Q(l + 1)))]

zxOf(h, n, mult) ==
  [q \in 0..(n * mult - 1) |->
     LET i == q \div mult
         l == q % mult
         delz == IF i < n - 1 THEN Norm(h[i + 1] - h[i], mult)
                 ELSE Norm(h[n - 1] - h[n - 2], mult)
     IN  RAdd(Q(h[i]), RMul(delz, Q(l)))]

\* the input files: nmods models on nsteps ascending heights, written per
\* numbers to the line
RECURSIVE Chunk(_, _)
Chunk(sq, per) ==
  IF Len(sq) <= per THEN <<sq>>
  ELSE <<SubSeq(sq, 1, per)>> \o Chunk(SubSeq(sq, per + 1, Len(sq)), per)

AsSeq(a, n) == [i \in 1..n |-> a[i - 1]]

RECURSIVE ModelLines(_, _)
ModelLines(d, j) ==
  IF j = d.nmods THEN <<>>
  ELSE <<<<j + 1, 0>>>> \o Chunk(AsSeq(d.oB[j], d.nsteps), d.per)
       \o ModelLines(d, j + 1)

BzFile(d) ==
  <<<<d.nmods, d.nsteps>>>> \o Chunk(AsSeq(d.ozx, d.nsteps), d.per)
  \o ModelLines(d, 0)

\* the heights: evenly spaced, or more and more apart
BzHeights(ns) == {[k \in 0..(ns - 1) |-> k + 1],
                  [k \in 0..(ns - 1) |-> (k + 1) * (k + 1)]}
\* the field of a model: falling, rising or flat
BzRows(ns) == {[k \in 0..(ns - 1) |-> ns - k], [k \in 0..(ns - 1) |-> k + 1],
               [k \in 0..(ns - 1) |-> 1]}

BzInputs ==
  UNION {
    {[nmods |-> nm, nsteps |-> ns, ozx |-> h, oB |-> b, per |-> per] :
       h \in BzHeights(ns), b \in [0..(nm - 1) -> BzRows(ns)],
       per \in {1, ns}} :
    nm \in 1..NMods, ns \in 2..MaxBz}

InitBz ==
  /\ RkIdle
  /\ OutIdle
  /\ MainIdle
  /\ CurveIdle
  /\ TailIdle
  /\ RhoIdle
  /\ b_pc = "open"
  /\ b_i = 0
  /\ file \in {BzFile(d) : d \in BzInputs}
  /\ pos = <<1, 1>>
  /\ multiple \in 1..2
  /\ nmods = 0
  /\ nsteps = 0
  /\ ozx = <<>>
  /\ oB = <<>>
  /\ zx = <<>>
  /\ B = <<>>

\* lines 199-207: the first line and the heights
ReadHeader ==
  /\ b_pc = "open"
  /\ \E line1 \in {readline(file, pos)} :
       /\ nmods' = line1.v[1]
       /\ nsteps' = line1.v[2]
       /\ \E hs \in {fromfile(file, line1.pos, line1.v[2])} :
            /\ ozx' = hs.v
            /\ pos' = hs.pos
       /\ oB' = [j \in 0..(line1.v[1] - 1) |->
                   [k \in 0..(line1.v[2] - 1) |-> 0]]
  /\ b_i' = 0
  /\ b_pc' = "models"
  /\ UNCHANGED <<file, multiple, zx, B>>
  /\ UNCHANGED <<rkVars, outVars, mainVars, curveVars, tailVars, rhoVars>>

\* lines 209-213: the header line and the field of model b_i
ReadModel ==
  /\ b_pc = "models"
  /\ b_i < nmods
  /\ \E line2 \in {readline(file, pos)} :
       \E Blist \in {fromfile(file, line2.pos, nsteps)} :
         /\ DOMAIN Blist.v = 0..(nsteps - 1)
         /\ oB' = [oB EXCEPT ![b_i] = Blist.v]
         /\ pos' = Blist.pos
  /\ b_i' = b_i + 1
  /\ UNCHANGED <<b_pc, file, multiple, nmods, nsteps, ozx, zx, B>>
  /\ UNCHANGED <<rkVars, outVars, mainVars, curveVars, tailVars, rhoVars>>

\* lines 214-228: the file is closed and the heights are filled in
Heights ==
  /\ b_pc = "models"
  /\ b_i = nmods
  /\ zx' = zxOf(ozx, nsteps, multiple)
  /\ nsteps' = nsteps * multiple
  /\ b_pc' = "field"
  /\ UNCHANGED <<b_i, file, pos, multiple, nmods, ozx, oB, B>>
  /\ UNCHANGED <<rkVars, outVars, mainVars, curveVars, tailVars, rhoVars>>

\* lines 229-233: the field at every height, and the return
Field ==
  /\ b_pc = "field"
  /\ B' = [j \in 0..(nmods - 1) |->
             [k \in 0..(nsteps - 1) |->
                interp(zx[k], ozx, [i \in DOMAIN ozx |-> Q(oB[j][i])])]]
  /\ b_pc' = "done"
  /\ UNCHANGED <<b_i, file, pos, multiple, nmods, nsteps, ozx, oB, zx>>
  /\ UNCHANGED <<rkVars, outVars, mainVars, curveVars, tailVars, rhoVars>>

NextBz == ReadHeader \/ ReadModel \/ Heights \/ Field

SpecBz == InitBz /\ [][NextBz]_vars

(***************************************************************************)
(* C13: with multiple = 1, read_bzin returns the numbers of models and of  *)
(* heights, the heights and the field of every model as they are written   *)
(* in the file.                                                            *)
(***************************************************************************)
C13_RoundTrip ==
  (b_pc = "done" /\ multiple = 1) =>
    \A d \in BzInputs :
      file = BzFile(d) =>
        /\ nmods = d.nmods
        /\ nsteps = d.nsteps
        /\ DOMAIN zx = 0..(d.nsteps - 1)
        /\ \A k \in 0..(d.nsteps - 1) : zx[k] = Q(d.ozx[k])
        /\ DOMAIN B = 0..(d.nmods - 1)
        /\ \A j \in 0..(d.nmods - 1) :
             /\ DOMAIN B[j] = 0..(d.nsteps - 1)
             /\ \A k \in 0..(d.nsteps - 1) : B[j][k] = Q(d.oB[j][k])

\* a file of several models with different fields on unevenly spaced
\* heights, one number to the line, is read with multiple = 1
C13_Witness ==
  /\ b_pc = "done"
  /\ multiple = 1
  /\ nmods > 1
  /\ Len(file) > 1 + nmods + nsteps
  /\ ozx[1] - ozx[0] # ozx[nsteps - 1] - ozx[nsteps - 2]
  /\ B[0] # B[1]
  /\ B[0][0] # B[0][1]

\* the signs of rhsj are all equal except at one interior sample
SingleSample(rhsj) ==
  \E m \in 1..(NSteps - 2) :
    /\ RSign(rhsj[m]) # RSign(rhsj[0])
    /\ \A k \in Steps \ {m} : RSign(rhsj[k]) = RSign(rhsj[0])

(***************************************************************************)
(* C14: for a model whose RHS has the same sign everywhere except at one   *)
(* isolated interior sample, the sign test flags no index and the model    *)
(* gets icrit[j] = -1.                                                     *)
(***************************************************************************)
C14_NoiseRejected ==
  o_pc = "located" =>
    \A j \in Models :
      SingleSample(rhs[j]) =>
        /\ OwnCandidates(rhs[j]) = {}
        /\ icrit[j] = -1

\* the line through the critical point (rpt, upt) with the slope
\* dUdrpt[side], at the grid point k
Extrapolated(k, side) ==
  RAdd(upt, RMul(RSub(Q(Grid[k]), rpt), dUdrpt[side]))

(***************************************************************************)
(* C15: the points iC-1 and iC lie on the line of the lower slope, iC+1    *)
(* and iC+2 on the line of the upper slope, and no integration step writes *)
(* them; every call of rk4 starts at an index <= iC-1 and goes one point   *)
(* inward, or starts at an index >= iC+2 and goes one point outward, so    *)
(* its interval does not meet [r[iC], r[iC+1]].                            *)
(***************************************************************************)
C15_BracketSeeded ==
  /\ c_pc \notin {"idle", "seed"} =>
       /\ \A k \in {iC - 1, iC} :
            c_writes[k] = <<"seed">> /\ ucurve[k] = Extrapolated(k, 0)
       /\ \A k \in {iC + 1, iC + 2} :
            c_writes[k] = <<"seed">> /\ ucurve[k] = Extrapolated(k, 1)
  /\ \A call \in c_calls :
       /\ \/ call[1] <= iC - 1 /\ call[2] = call[1] - 1
          \/ call[1] >= iC + 2 /\ call[2] = call[1] + 1
       /\ \/ Grid[call[1]] < Grid[iC] /\ Grid[call[2]] < Grid[iC]
          \/ Grid[call[1]] > Grid[iC + 1] /\ Grid[call[2]] > Grid[iC + 1]

\* slope2curve returns after integrating inward and outward, from seeds
\* of two different slopes
C15_Witness ==
  /\ c_pc = "done"
  /\ dUdrpt[0] # dUdrpt[1]
  /\ ~RIsZero(dUdrpt[0])
  /\ \E call \in c_calls : call[1] = iC - 1
  /\ \E call \in c_calls : call[1] = iC + 2

(***************************************************************************)
(* C17: for every critical index outflows can select, every index          *)
(* slope2curve uses is within 0..nsteps-1, no IndexError is raised, and    *)
(* on return every grid point has been assigned exactly once, by a seed    *)
(* or by an integration step.                                              *)
(***************************************************************************)
C17_IndicesInRange ==
  /\ c_reads \subseteq Steps
  /\ c_pc # "indexerror"
  /\ c_pc \notin {"idle", "seed"} => (iC - 1 >= 0 /\ iC + 2 <= NSteps - 1)
  /\ \A k \in DOMAIN c_writes : Len(c_writes[k]) <= 1
  /\ c_pc = "done" =>
       /\ \A k \in Steps : Len(c_writes[k]) = 1
       /\ c_reads = Steps

\* slope2curve returns for the smallest critical index (iC-1 is the first
\* grid point) and integrates up to the last grid point
C17_Witness ==
  /\ c_pc = "done"
  /\ iC - 1 = 0
  /\ c_writes[NSteps - 1] = <<"rk4">>
  /\ c_writes[0] = <<"seed">>

\* what critSlope returns for a model it does not resolve
Unresolved == [rC |-> Q(0), uC |-> Q(0), dUdrc |-> Q(0), warned |-> FALSE]

(***************************************************************************)
(* C16: for a model with icrit[j] = -1, outflows makes no call of          *)
(* slope2curve and returns a profile that is zero at every grid point and  *)
(* locCrit[j] = 0.                                                         *)
(***************************************************************************)
C16_SentinelSkipped ==
  o_pc \in {"assemble", "done", "raised"} =>
    \A j \in Models :
      icrit[j] = -1 =>
        /\ calls[j] = 0
        /\ \A k \in Steps : uflow[j][k] = Q(0)
        /\ locCrit[j] = Q(0)

\* outflows returns for a batch of a model without critical point and a
\* model with one, whose profile slope2curve has built
C16_Witness ==
  /\ o_pc = "done"
  /\ \E j \in Models : icrit[j] = -1
  /\ \E j \in Models :
       /\ icrit[j] # -1
       /\ calls[j] = 1
       /\ \E k \in Steps : RLt(Q(0), uflow[j][k])
       /\ RLt(Q(0), locCrit[j])

(***************************************************************************)
(* C18: for a model with icrit[j] = -1, both calls of critSlope return     *)
(* rC = 0, uC = 0 and the slope 0 and print no warning.                    *)
(***************************************************************************)
C18_SentinelUnresolved ==
  o_pc \in {"assemble", "done"} =>
    \A j \in Models :
      icrit[j] = -1 => (plus[j] = Unresolved /\ minus[j] = Unresolved)
====
